---- MODULE Spec2Model ----
(***************************************************************************)
(* Consultation-processing pipeline of the veterinary consultation         *)
(* recorder: the upload gateway (POST /api/consultations), the background  *)
(* run processTranscription (transcribeAudio -> generateSoapNote ->        *)
(* storage.updateConsultation), and the edit / delete endpoints that touch *)
(* the same consultation rows and the same files under uploads/.           *)
(*                                                                         *)
(* The server is one Node.js event loop: a handler runs without            *)
(* interruption up to its next await.  The variable turn names the         *)
(* consultation whose handler is in the middle of such a synchronous       *)
(* stretch; every other action waits for turn = 0.                         *)
(*                                                                         *)
(* The recorder component of the browser (RecordingControls) is a second   *)
(* state machine, SpecRecorder: its handlers, the callbacks of the         *)
(* MediaRecorder, of its interval and of its timeout, and the outcome of   *)
(* the upload.  Each action is one task of the browser's event loop.  The  *)
(* two machines share no variable: Spec leaves the recorder as mounted,    *)
(* SpecRecorder leaves the server as started.                              *)
(*                                                                         *)
(* Three further specifications follow parts of the server over the same   *)
(* variables: SpecRuns (several consultations whose runs interleave),      *)
(* SpecMedia (one consultation, its run and the audio / download requests  *)
(* that convert onto the same .mp3 path) and SpecCustomers (the customer   *)
(* endpoints).                                                             *)
(***************************************************************************)
EXTENDS Integers, Sequences, FiniteSets, TLC

\* Number of POST /api/consultations requests of a behaviour.
MaxUploads == 1

Users == {"u1", "u2"}

\* A text column holds a sequence of lines; <<>> is the empty string and NULL
\* stands for SQL NULL.
NULL == <<"<null>">>

\* Number of rows the customers table can hold (customer 1 exists at the
\* start and belongs to u1).
MaxCustomers == 2
CustomerIds == 1..MaxCustomers

\* customerId of a request body: 0 stands for "field absent".
RequestCustomerIds == {0, 1, 2}
RequestCustomerNames == {"", "Bob"}

\* The audio part of the multipart request: absent, zero bytes, or some bytes.
RequestFiles == {"none", "empty", "data"}

\* path.extname(originalname) || '.webm': the recorder uploads recording.webm.
Extensions == {".webm"}

\* Consultations (and uploads) that two users can have side by side; ids and
\* upload numbers run over 1..MaxConsultations.
MaxConsultations == 2
Ids == 1..MaxConsultations

\* Calls of startRecording that pass its guards (each asks for the
\* microphone and, when granted, creates one MediaRecorder).
MaxStarts == 2
RecorderIds == 1..MaxStarts

\* Fragments the recorders deliver in a behaviour.
MaxFragments == 2

\* The elapsed-time counter is followed up to this value.
MaxDuration == 2

\* stopRecording callbacks waiting for their 100 ms at one time.
MaxPending == 1

\* GET .../audio and .../download requests of a behaviour.
MaxRequests == 2

\* Files under uploads/: upload n is stored by multer as <<n, "">>, renamed
\* to <<n, ext>>, and converted to <<n, ".mp3">> or <<n, ext \o ".wav">>.
Suffixes == {"", ".webm", ".mp3", ".webm.wav"}
Paths == Ids \X Suffixes
\* A file is absent, has no bytes, is complete, or is an output that a
\* spawned ffmpeg has opened and not finished ("partial").
FileStates == {"absent", "empty", "data", "partial"}

Statuses == {"processing", "completed", "failed"}
Terminal == {"completed", "failed"}

NoRow == [absent |-> TRUE]

VARIABLES
    rows,        \* consultations table: id -> row or NoRow
    nextId,      \* serial primary key
    nextUpload,  \* number of the next POST /api/consultations request
    disk,        \* path -> "absent" | "empty" | "data"
    response,    \* upload number -> HTTP status sent (0: none yet)
    run,         \* id -> state of processTranscription(id, audioUrl)
    turn,        \* id whose handler is inside a synchronous stretch, or 0
    customers,   \* customers table: id -> row or NoCustomer
    nextCustomerId, \* serial primary key of customers
    audioRequests   \* the audio/download requests so far and their answers

customerVars == <<customers, nextCustomerId>>

serverVars == <<rows, nextId, nextUpload, disk, response, run, turn,
                customers, nextCustomerId, audioRequests>>

\* The recorder component of the browser (RecordingControls): its React
\* state, its interval ref, and what the browser holds for it.
VARIABLES
    recordingState,   \* 'idle' | 'recording' | 'paused' | 'stopped'
    selectedCustomerName,  \* customerName, the patient association; "" at first
    consentConfirmed,
    duration,         \* elapsed seconds
    mediaRecorder,    \* the recorder in React state, or 0 (null)
    audioChunks,      \* the fragment buffer
    intervalRef,      \* intervalRef.current: an interval, or 0 (null)
    intervals,        \* the intervals set and not cleared
    recorders,        \* recorder -> state of the MediaRecorder and its stream
    timeouts,         \* pending setTimeout callbacks of stopRecording
    uploads,          \* uploadMutation calls not yet settled
    payload,          \* the audioBlob of the latest uploadMutation.mutate
    toast,            \* the toast the latest step raised, or "none"
    fragments         \* fragments delivered so far (they are numbered)

clientVars == <<recordingState, selectedCustomerName, consentConfirmed, duration,
                mediaRecorder, audioChunks, intervalRef, intervals, recorders,
                timeouts, uploads, payload, toast, fragments>>

vars == <<rows, nextId, nextUpload, disk, response, run, turn,
          customers, nextCustomerId, audioRequests,
          recordingState, selectedCustomerName, consentConfirmed, duration,
          mediaRecorder, audioChunks, intervalRef, intervals, recorders,
          timeouts, uploads, payload, toast, fragments>>

----------------------------------------------------------------------------
\* fs.existsSync(p) && fs.statSync(p).size > 0
existsNonEmpty(d, p) == d[p] = "data"

existsSync(d, p) == d[p] # "absent"

\* audioFilePath.replace(/\.[^/.]+$/, ".mp3")
\* Variant: one name for every converted MP3.
mp3FilePathShared(p) == <<1, ".mp3">>

mp3FilePath(p) == <<p[1], ".mp3">>

\* audioFilePath + '.wav'
wavFilePath(p) == <<p[1], p[2] \o ".wav">>

\* storage.getCustomer(id, userId)
NoCustomer == [absent |-> TRUE]
CustomerOwner(c) == customers[c].userId
getCustomer(c, u) ==
    c \in CustomerIds /\ customers[c] # NoCustomer /\ CustomerOwner(c) = u

\* Variant: the row is looked up by id alone.
getConsultationById(id, u) ==
    IF id \in Ids /\ rows[id] # NoRow THEN rows[id] ELSE NoRow

\* storage.getConsultation(id, userId): the row, or NoRow
getConsultation(id, u) ==
    IF id \in Ids /\ rows[id] # NoRow /\ rows[id].userId = u
    THEN rows[id] ELSE NoRow

\* State of one processTranscription call.  pc is its position; upload and
\* path are where its arguments come from; conv is conversionSuccessful
\* (cleared when transcribeAudio returns); text the transcript and content
\* what the note service answered (both are locals of the try block, out of
\* scope once the catch block is entered).  starts, threw, wrote and fault record what
\* happened: calls made for this id, the step that threw, the columns the
\* run has written, and whether the status='failed' update itself threw.
NoContent == [kind |-> "none"]
NoRun == [pc |-> "none", upload |-> 0, path |-> <<0, "">>, starts |-> 0,
          conv |-> FALSE, text |-> NULL, content |-> NoContent,
          threw |-> "none", wrote |-> {}, fault |-> FALSE]

\* The server before any request, and the recorder component as mounted.
Init ==
    /\ rows = [i \in Ids |-> NoRow]
    /\ nextId = 1
    /\ nextUpload = 1
    /\ disk = [p \in Paths |-> "absent"]
    /\ response = [n \in Ids |-> 0]
    /\ run = [i \in Ids |-> NoRun]
    /\ turn = 0
    /\ customers = [c \in CustomerIds |->
                       IF c = 1 THEN [userId |-> "u1", name |-> "Bob",
                                      petName |-> "Rex"]
                       ELSE NoCustomer]
    /\ nextCustomerId = 2
    /\ audioRequests = <<>>
    /\ recordingState = "idle"
    /\ selectedCustomerName = ""
    /\ consentConfirmed = FALSE
    /\ duration = 0
    /\ mediaRecorder = 0
    /\ audioChunks = <<>>
    /\ intervalRef = 0
    /\ intervals = {}
    /\ recorders = [r \in RecorderIds |-> "none"]
    /\ timeouts = <<>>
    /\ uploads = 0
    /\ payload = <<>>
    /\ toast = "none"
    /\ fragments = 0

----------------------------------------------------------------------------
(* Upload gateway: POST /api/consultations                                  *)

\* upload.single('audio'): the multer middleware stores the audio part under
\* uploads/ before the route handler runs.
multerSingle(d, n, file) ==
    IF file = "none" THEN d ELSE [d EXCEPT ![<<n, "">>] = file]

\* The two guards at the top of the handler; 0 when the request passes.
validateUpload(customerName, customerId, file) ==
    IF customerName = "" /\ customerId = 0 THEN 400
    ELSE IF file = "none" THEN 400
    ELSE 0

\* fs.renameSync(originalPath, newPath)
renameSync(d, from, to) == [d EXCEPT ![from] = "absent", ![to] = d[from]]

\* `${patientId}_${petName}_${dateStamp}_${timeStamp}`: the patient's id and
\* pet name ("unknown", "patient" without a customer record) and the minute
\* of the request; the requests of a behaviour fall into one minute.
fileNameOf(customerId) ==
    IF customerId # 0 THEN "P001_Rex_20250101_0900"
    ELSE "unknown_patient_20250101_0900"

\* The row handed to storage.createConsultation; the nullable columns the
\* handler does not set are NULL and is_finalized takes its default.
\* customerId 0 stands for NULL.  The display columns customer_name,
\* patient_id and pet_name are written here and by nothing else, and are
\* left out.
newConsultation(u, customerId, newPath) ==
    [userId |-> u, customerId |-> customerId,
     fileName |-> fileNameOf(customerId), audioUrl |-> newPath,
     status |-> "processing", fullTranscription |-> NULL,
     aiSoapNote |-> NULL, finalSoapNote |-> NULL, isFinalized |-> FALSE]

\* The handler up to and including `await storage.createConsultation(...)`.
\* dbOk = FALSE: the insert throws and the catch block answers 500.
PostConsultations(u, customerName, customerId, file, ext, dbOk) ==
    /\ turn = 0
    /\ nextUpload \in Ids
    /\ LET n == nextUpload
           stored == multerSingle(disk, n, file)
           code == validateUpload(customerName, customerId, file)
           newPath == <<n, ext>>
           renamed == renameSync(stored, <<n, "">>, newPath)
       IN /\ nextUpload' = n + 1
          /\ IF code # 0
             THEN /\ response' = [response EXCEPT ![n] = code]
                  /\ disk' = stored
                  /\ UNCHANGED <<rows, nextId, run>>
             ELSE IF customerId # 0 /\ ~getCustomer(customerId, u)
             THEN /\ response' = [response EXCEPT ![n] = 404]
                  /\ disk' = stored
                  /\ UNCHANGED <<rows, nextId, run>>
             ELSE IF ~dbOk
             THEN /\ response' = [response EXCEPT ![n] = 500]
                  /\ disk' = renamed
                  /\ UNCHANGED <<rows, nextId, run>>
             ELSE /\ rows' = [rows EXCEPT ![nextId] =
                                  newConsultation(u, customerId, newPath)]
                  /\ nextId' = nextId + 1
                  /\ run' = [run EXCEPT ![nextId] =
                                 [NoRun EXCEPT !.pc = "created", !.upload = n,
                                               !.path = newPath]]
                  /\ disk' = renamed
                  /\ UNCHANGED response
    /\ UNCHANGED turn
    /\ UNCHANGED <<customerVars, audioRequests, clientVars>>

----------------------------------------------------------------------------
(* Audio normalizer: the synchronous part of transcribeAudio                *)

\* What one execSync("ffmpeg ...") can do: exit 0 leaving a non-empty or an
\* empty output file, or throw with the output path left as it was: on a
\* non-zero exit ("throw") or when the call exceeds its `timeout: 30000` and
\* the child is killed ("timeout").
ExecOutcomes == {"ok_data", "ok_empty", "throw", "timeout"}
ExecThrew(o) == o \in {"throw", "timeout"}

runFfmpeg(d, out, o) ==
    CASE o = "ok_data"  -> [d EXCEPT ![out] = "data"]
      [] o = "ok_empty" -> [d EXCEPT ![out] = "empty"]
      [] OTHER          -> d

\* ffmpeg exits non-zero before opening its output when the input is missing
\* or holds no data, and refuses to convert a file onto itself ("cannot edit
\* existing files in-place"), which is the primary call for an .mp3 upload.
PrimaryOutcomes(d, audioFilePath) ==
    IF d[audioFilePath] # "data" \/ mp3FilePath(audioFilePath) = audioFilePath
    THEN {"throw"} ELSE ExecOutcomes

SecondaryOutcomes(d, audioFilePath) ==
    IF d[audioFilePath] # "data" THEN {"throw"} ELSE ExecOutcomes

\* Lines 13-53 of transcribeAudio: the disk after the conversions, the file
\* chosen, conversionSuccessful, and whether the verification threw.
normalizeAudio(d, audioFilePath, primary, secondary) ==
    LET mp3 == mp3FilePath(audioFilePath)
        wav == wavFilePath(audioFilePath)
        d1  == runFfmpeg(d, mp3, primary)
        mp3Ok == ~ExecThrew(primary) /\ existsNonEmpty(d1, mp3)
        d2  == IF ExecThrew(primary) THEN runFfmpeg(d1, wav, secondary) ELSE d1
        wavOk == ExecThrew(primary) /\ ~ExecThrew(secondary)
                 /\ existsNonEmpty(d2, wav)
        fileToUse == IF mp3Ok THEN mp3 ELSE IF wavOk THEN wav ELSE audioFilePath
    IN [disk |-> d2, fileToUse |-> fileToUse,
        conversionSuccessful |-> (mp3Ok \/ wavOk),
        attempted |-> IF ExecThrew(primary) THEN <<"mp3", "wav">>
                      ELSE <<"mp3">>,
        threw |-> ~existsNonEmpty(d2, fileToUse)]

\* The handler resumes after createConsultation: processTranscription(id,
\* newPath) is called without await, so transcribeAudio runs synchronously up
\* to `await openai.audio.transcriptions.create(...)`: both execSync calls
\* and the verification happen inside this call.
ProcessTranscriptionStart(id, primary, secondary) ==
    /\ turn = 0
    /\ run[id].pc = "created"
    /\ primary \in PrimaryOutcomes(disk, run[id].path)
    /\ secondary \in SecondaryOutcomes(disk, run[id].path)
    /\ ExecThrew(primary) \/ secondary = "throw"
    /\ LET r == normalizeAudio(disk, run[id].path, primary, secondary)
       IN /\ disk' = r.disk
          /\ run' = [run EXCEPT ![id] =
                 [@ EXCEPT !.pc = IF r.threw THEN "failing" ELSE "stt",
                           !.starts = @ + 1,
                           !.conv = r.conversionSuccessful,
                           !.threw = IF r.threw THEN "normalize" ELSE "none"]]
    /\ turn' = id
    /\ UNCHANGED <<rows, nextId, nextUpload, response>>
    /\ UNCHANGED <<customerVars, audioRequests, clientVars>>

\* res.json(consultation): the statement after the processTranscription call.
SendResponse(id) ==
    /\ turn = id
    /\ response' = [response EXCEPT ![run[id].upload] = 200]
    /\ turn' = 0
    /\ UNCHANGED <<rows, nextId, nextUpload, disk, run>>
    /\ UNCHANGED <<customerVars, audioRequests, clientVars>>

----------------------------------------------------------------------------
(* Transcription and note generation                                        *)

\* transcription.text as the speech-to-text service returns it.
Transcripts == {<<>>, <<"hello">>}

\* Lines 64-68: the clean-up after a successful transcription.
cleanUp(d, audioFilePath, conversionSuccessful) ==
    IF conversionSuccessful
    THEN [d EXCEPT ![mp3FilePath(audioFilePath)] = "absent",
                   ![wavFilePath(audioFilePath)] = "absent"]
    ELSE d

\* openai.audio.transcriptions.create resolves: clean up, return the text;
\* processTranscription goes on to call generateSoapNote(text).
SttResolve(id, text) ==
    /\ turn = 0
    /\ run[id].pc = "stt"
    /\ disk' = cleanUp(disk, run[id].path, run[id].conv)
    /\ run' = [run EXCEPT ![id] =
           [@ EXCEPT !.pc = "note", !.text = text, !.conv = FALSE]]
    /\ UNCHANGED <<rows, nextId, nextUpload, response, turn>>
    /\ UNCHANGED <<customerVars, audioRequests, clientVars>>

\* The call rejects (service error, timeout): transcribeAudio rethrows, no
\* clean-up runs, processTranscription enters its catch block.
SttReject(id) ==
    /\ turn = 0
    /\ run[id].pc = "stt"
    /\ run' = [run EXCEPT ![id] =
           [@ EXCEPT !.pc = "failing", !.threw = "stt", !.conv = FALSE]]
    /\ UNCHANGED <<rows, nextId, nextUpload, disk, response, turn>>
    /\ UNCHANGED <<customerVars, audioRequests, clientVars>>

Sections == {"subjective", "objective", "assessment", "plan"}
Placeholder == "Not mentioned"

\* A property of the parsed object: absent, the empty string, or some text.
Missing == "<undefined>"
SectionText(s) == "text of " \o s

\* response.choices[0].message.content: null, "", text that is not JSON, or
\* the JSON text of an object: one object with all four sections, one where
\* a section is absent and another is the empty string.
JsonObjects ==
    { [s \in Sections |-> "text"],
      [subjective |-> "text", objective |-> Missing,
       assessment |-> "", plan |-> "text"] }
NoteContents ==
    {[kind |-> k, obj |-> [s \in Sections |-> Missing]] :
        k \in {"null", "empty", "garbage"}}
    \cup {[kind |-> "json", obj |-> o] : o \in JsonObjects}

\* JSON.parse(content || "{}"): null and "" become "{}", the empty object;
\* text that is not JSON makes JSON.parse throw a SyntaxError.
jsonParse(content) ==
    CASE content.kind \in {"null", "empty"} ->
             [threw |-> FALSE, result |-> [s \in Sections |-> Missing]]
      [] content.kind = "garbage" ->
             [threw |-> TRUE, result |-> [s \in Sections |-> Missing]]
      [] OTHER ->
             [threw |-> FALSE,
              result |-> [s \in Sections |->
                            IF content.obj[s] = "text" THEN SectionText(s)
                            ELSE content.obj[s]]]

\* Variant: only an absent section is replaced (?? in place of ||).
orNotMentionedNullish(v) == IF v = Missing THEN Placeholder ELSE v

\* result.x || "Not mentioned": undefined and "" are falsy.
orNotMentioned(v) == IF v = Missing \/ v = "" THEN Placeholder ELSE v

\* Lines 117-128 of generateSoapNote: the parse is inside the try block, so a
\* SyntaxError is caught and rethrown as "Failed to generate SOAP note".
generateSoapNote(content) ==
    LET p == jsonParse(content)
    IN [threw |-> p.threw,
        note  |-> [s \in Sections |-> orNotMentioned(p.result[s])]]

\* The template literal of line 768, as the sequence of its header lines and
\* section bodies.
formatSoap(note) ==
    <<"Subjective:", note["subjective"], "Objective:", note["objective"],
      "Assessment:", note["assessment"], "Plan:", note["plan"]>>

\* Variant: the update leaves status out.
resultUpdateWithoutStatus(text, formattedSoap) ==
    [fullTranscription |-> text, aiSoapNote |-> formattedSoap,
     finalSoapNote |-> formattedSoap]

\* The update of lines 771-776.
resultUpdate(text, formattedSoap) ==
    [fullTranscription |-> text, aiSoapNote |-> formattedSoap,
     finalSoapNote |-> formattedSoap, status |-> "completed"]

\* Variant: the catch block also stores a transcript.
failedUpdateWithTranscript ==
    [status |-> "failed", fullTranscription |-> <<"hello">>]

\* The update of lines 783-785.
failedUpdate == [status |-> "failed"]

\* openai.chat.completions.create resolves with some content.
NoteResolve(id, content) ==
    /\ turn = 0
    /\ run[id].pc = "note"
    /\ run' = [run EXCEPT ![id] =
           IF generateSoapNote(content).threw
           THEN [@ EXCEPT !.pc = "failing", !.threw = "parse", !.text = NULL]
           ELSE [@ EXCEPT !.pc = "persisting", !.content = content]]
    /\ UNCHANGED <<rows, nextId, nextUpload, disk, response, turn>>
    /\ UNCHANGED <<customerVars, audioRequests, clientVars>>

\* The call rejects (service error, timeout).
NoteReject(id) ==
    /\ turn = 0
    /\ run[id].pc = "note"
    /\ run' = [run EXCEPT ![id] =
           [@ EXCEPT !.pc = "failing", !.threw = "note", !.text = NULL]]
    /\ UNCHANGED <<rows, nextId, nextUpload, disk, response, turn>>
    /\ UNCHANGED <<customerVars, audioRequests, clientVars>>

----------------------------------------------------------------------------
(* Storage and the orchestrator's two updates                               *)

\* storage.updateConsultation(id, updates): UPDATE ... SET updates WHERE id;
\* columns not named keep their value, a missing row is left missing.
updateConsultation(t, id, updates) ==
    IF t[id] = NoRow THEN t
    ELSE [t EXCEPT ![id] =
             [c \in DOMAIN t[id] |->
                 IF c \in DOMAIN updates THEN updates[c] ELSE t[id][c]]]

\* The update a run at "persisting" has handed to storage: lines 767-776.
pendingUpdate(id) ==
    resultUpdate(run[id].text,
                 formatSoap(generateSoapNote(run[id].content).note))

\* `await storage.updateConsultation(id, {... status: "completed"})`.
\* dbOk = FALSE: the update throws and control passes to the catch block.
PersistResult(id, dbOk) ==
    /\ turn = 0
    /\ run[id].pc = "persisting"
    /\ IF dbOk
       THEN /\ rows' = updateConsultation(rows, id, pendingUpdate(id))
            /\ run' = [run EXCEPT ![id] =
                   [@ EXCEPT !.pc = "done",
                             !.wrote = IF rows[id] = NoRow THEN @
                                       ELSE @ \cup DOMAIN pendingUpdate(id)]]
       ELSE /\ rows' = rows
            /\ run' = [run EXCEPT ![id] =
                   [@ EXCEPT !.pc = "failing", !.threw = "persist",
                             !.text = NULL, !.content = NoContent]]
    /\ UNCHANGED <<nextId, nextUpload, disk, response, turn>>
    /\ UNCHANGED <<customerVars, audioRequests, clientVars>>

\* Variant: after storing 'failed' the catch block schedules the run again.
PersistFailedThenRetry(id, dbOk) ==
    /\ turn = 0
    /\ run[id].pc = "failing"
    /\ rows' = IF dbOk THEN updateConsultation(rows, id, failedUpdate) ELSE rows
    /\ run' = [run EXCEPT ![id] = [@ EXCEPT !.pc = "created", !.threw = "none"]]
    /\ UNCHANGED <<nextId, nextUpload, disk, response, turn>>
    /\ UNCHANGED <<customerVars, audioRequests, clientVars>>

\* The catch block: `await storage.updateConsultation(id, {status: "failed"})`.
\* dbOk = FALSE: this update throws too; nothing catches it and the run ends.
PersistFailed(id, dbOk) ==
    /\ turn = 0
    /\ run[id].pc = "failing"
    /\ IF dbOk
       THEN /\ rows' = updateConsultation(rows, id, failedUpdate)
            /\ run' = [run EXCEPT ![id] =
                   [@ EXCEPT !.pc = "done",
                             !.wrote = IF rows[id] = NoRow THEN @
                                       ELSE @ \cup DOMAIN failedUpdate]]
       ELSE /\ rows' = rows
            /\ run' = [run EXCEPT ![id] = [@ EXCEPT !.pc = "done", !.fault = TRUE]]
    /\ UNCHANGED <<nextId, nextUpload, disk, response, turn>>
    /\ UNCHANGED <<customerVars, audioRequests, clientVars>>

----------------------------------------------------------------------------
(* Edit and delete endpoints                                                *)

\* Variant: the body is handed to storage as it came (no schema).
consultationUpdateSchemaPassthrough(body) == body

\* Variant: status is among the picked keys.
consultationUpdateSchemaWithStatus(body) ==
    [c \in DOMAIN body \cap {"finalSoapNote", "isFinalized", "status"} |-> body[c]]

\* insertConsultationSchema.pick({finalSoapNote, isFinalized}).partial()
\* .parse(body): a zod object schema drops the keys it does not name.
consultationUpdateSchema(body) ==
    [c \in DOMAIN body \cap {"finalSoapNote", "isFinalized"} |-> body[c]]

\* Request bodies of PUT /api/consultations/:id.
PutBodies ==
    { [finalSoapNote |-> <<"edited">>, isFinalized |-> TRUE,
       status |-> "completed", fullTranscription |-> <<"forged">>,
       aiSoapNote |-> <<"forged">>, userId |-> "u2", customerId |-> 2,
       audioUrl |-> <<1, ".mp3">>, fileName |-> "forged"],
      [status |-> "processing"] }

\* PUT /api/consultations/:id.  A request for a row of another user (or for
\* no row) is answered 404, and one whose parsed body is empty makes the
\* query builder throw ("No values to set", answered 500); neither writes.
PutConsultation(u, id, body) ==
    /\ turn = 0
    /\ getConsultation(id, u) # NoRow
    /\ LET updates == consultationUpdateSchema(body)
       IN /\ DOMAIN updates # {}
          /\ rows' = updateConsultation(rows, id, updates)
    /\ UNCHANGED <<nextId, nextUpload, disk, response, run, turn>>
    /\ UNCHANGED <<customerVars, audioRequests, clientVars>>

\* Lines 737-746: unlinkSync(audioUrl) throws when the file is gone, which
\* skips the removal of the converted .mp3.
deleteMedia(d, audioUrl) ==
    IF ~existsSync(d, audioUrl) THEN d
    ELSE [d EXCEPT ![audioUrl] = "absent", ![mp3FilePath(audioUrl)] = "absent"]

\* storage.deleteConsultation(id, userId)
deleteConsultation(t, id, u) ==
    IF t[id] # NoRow /\ t[id].userId = u THEN [t EXCEPT ![id] = NoRow] ELSE t

\* DELETE /api/consultations/:id, for a row the caller owns (for any other id
\* the handler changes nothing).
DeleteConsultation(u, id) ==
    /\ turn = 0
    /\ getConsultation(id, u) # NoRow
    /\ disk' = deleteMedia(disk, getConsultation(id, u).audioUrl)
    /\ rows' = deleteConsultation(rows, id, u)
    /\ UNCHANGED <<nextId, nextUpload, response, run, turn>>
    /\ UNCHANGED <<customerVars, audioRequests, clientVars>>

----------------------------------------------------------------------------
(* GET /api/consultations/:id/audio and /download: the two handlers have the
   same steps and differ in the Content-Disposition header only            *)

\* fs.createReadStream(p).pipe(res): the bytes the file holds when it is
\* read: a complete MP3, nothing, or what ffmpeg has written so far.
createReadStream(d, p) ==
    CASE d[p] = "data"    -> "mp3"
      [] d[p] = "empty"   -> "empty"
      [] d[p] = "partial" -> "partial"
      [] OTHER            -> "error"

\* The fallback of the handlers: the original file, as it is.
streamOriginal(d, audioPath) ==
    IF existsSync(d, audioPath) THEN "original" ELSE "error"

\* The handler up to its answer or up to spawn("ffmpeg", [...,
\* mp3OutputPath]), whose process creates the output file.
AudioRequest(u, id) ==
    /\ turn = 0
    /\ Len(audioRequests) < MaxRequests
    /\ LET consultation == getConsultation(id, u)
           audioPath == consultation.audioUrl
           mp3OutputPath == mp3FilePath(audioPath)
           isMP3 == audioPath = mp3OutputPath
           answered(out) ==
               /\ audioRequests' = Append(audioRequests,
                      [id |-> id, path |-> <<0, "">>, out |-> out])
               /\ UNCHANGED disk
       IN IF consultation = NoRow THEN answered("notfound")
          ELSE IF ~existsSync(disk, audioPath) THEN answered("notfound")
          ELSE IF isMP3 THEN answered(streamOriginal(disk, audioPath))
          ELSE IF existsSync(disk, mp3OutputPath)
          THEN answered(createReadStream(disk, mp3OutputPath))
          ELSE /\ disk' = [disk EXCEPT ![mp3OutputPath] = "partial"]
               /\ audioRequests' = Append(audioRequests,
                      [id |-> id, path |-> audioPath, out |-> "converting"])
    /\ UNCHANGED <<rows, nextId, nextUpload, response, run, turn>>
    /\ UNCHANGED <<customerVars, clientVars>>

\* The ffmpeg of request k wrote the file that is now at its output path:
\* no request spawned later (after the path had been unlinked) is still
\* converting onto it.
OwnsOutput(k) ==
    \A j \in DOMAIN audioRequests :
        (j > k /\ audioRequests[j].out = "converting")
        => audioRequests[j].path # audioRequests[k].path

\* ffmpeg.on("close", code): with code 0 the output it wrote is complete;
\* the handler streams the MP3 if code is 0 and the path exists, and the
\* original otherwise.
AudioClose(k, code) ==
    /\ turn = 0
    /\ k \in DOMAIN audioRequests
    /\ audioRequests[k].out = "converting"
    /\ LET audioPath == audioRequests[k].path
           mp3OutputPath == mp3FilePath(audioPath)
           d == IF code = 0 /\ disk[mp3OutputPath] = "partial" /\ OwnsOutput(k)
                THEN [disk EXCEPT ![mp3OutputPath] = "data"]
                ELSE disk
           out == IF code = 0 /\ existsSync(d, mp3OutputPath)
                  THEN createReadStream(d, mp3OutputPath)
                  ELSE streamOriginal(d, audioPath)
       IN /\ disk' = d
          /\ audioRequests' = [audioRequests EXCEPT ![k].out = out]
    /\ UNCHANGED <<rows, nextId, nextUpload, response, run, turn>>
    /\ UNCHANGED <<customerVars, clientVars>>

----------------------------------------------------------------------------
(* Customer (patient) endpoints                                             *)

\* The columns of customers that a request can set: insertCustomerSchema is
\* the insert schema of the table without id, createdAt and updatedAt, so
\* userId is one of them.
InsertCustomerColumns == {"userId", "name", "petName"}
CustomerNames == {"Bob", "Ann", "Eve"}
PetNames == {"Rex", "Tom"}

\* insertCustomerSchema.parse / .partial().parse: the keys the schema knows
\* are kept, any other key of the body is dropped.
insertCustomerSchema(body) ==
    [k \in DOMAIN body \cap InsertCustomerColumns |-> body[k]]

\* Request bodies of PUT /api/customers/:id: a new name, a new pet name, a
\* body that names an owner, a body that names an id.
PutCustomerBodies ==
    {[name |-> n] : n \in CustomerNames}
    \cup {[petName |-> n] : n \in PetNames}
    \cup {[userId |-> u] : u \in Users}
    \cup {[id |-> c, name |-> "Ann"] : c \in CustomerIds}

\* .set({ ...updates, updatedAt }): the columns named replace the row's.
setColumns(row, updates) ==
    [k \in DOMAIN row |-> IF k \in DOMAIN updates THEN updates[k] ELSE row[k]]

\* storage.updateCustomer(id, updates): UPDATE customers SET ... WHERE id.
updateCustomer(t, id, updates) ==
    IF id \in DOMAIN t /\ t[id] # NoCustomer
    THEN [t EXCEPT ![id] = setColumns(@, updates)]
    ELSE t

\* storage.deleteCustomer(id, userId): DELETE ... WHERE id AND userId.  A
\* customer that a consultation row references cannot be deleted (the
\* foreign key of consultations.customer_id): the statement throws.
deleteCustomer(t, id, u) ==
    IF /\ id \in DOMAIN t /\ t[id] # NoCustomer /\ t[id].userId = u
       /\ \A i \in Ids : rows[i] = NoRow \/ rows[i].customerId # id
    THEN [t EXCEPT ![id] = NoCustomer]
    ELSE t

\* POST /api/customers: the caller's id is put over whatever the body says.
PostCustomer(u, name, petName) ==
    /\ turn = 0
    /\ nextCustomerId <= MaxCustomers
    /\ LET customerData ==
             insertCustomerSchema([name |-> name, petName |-> petName,
                                   userId |-> u])
       IN customers' = [customers EXCEPT ![nextCustomerId] = customerData]
    /\ nextCustomerId' = nextCustomerId + 1
    /\ UNCHANGED <<rows, nextId, nextUpload, disk, response, run, turn>>
    /\ UNCHANGED <<audioRequests, clientVars>>

\* PUT /api/customers/:id: the body is parsed and handed to updateCustomer
\* with the id of the URL; req.user.id is read and not used.
PutCustomer(u, id, body) ==
    /\ turn = 0
    /\ customers' = updateCustomer(customers, id, insertCustomerSchema(body))
    /\ UNCHANGED <<rows, nextId, nextUpload, disk, response, run, turn,
                   nextCustomerId>>
    /\ UNCHANGED <<audioRequests, clientVars>>

\* DELETE /api/customers/:id
DeleteCustomer(u, id) ==
    /\ turn = 0
    /\ customers' = deleteCustomer(customers, id, u)
    /\ UNCHANGED <<rows, nextId, nextUpload, disk, response, run, turn,
                   nextCustomerId>>
    /\ UNCHANGED <<audioRequests, clientVars>>

----------------------------------------------------------------------------
(* Read endpoints: what a request by user u for consultation id is answered *)

\* The 404 answer of an endpoint.
NotFound == [status |-> 404]

\* storage.getUserConsultations(userId): GET /api/consultations
getUserConsultations(u) == {id \in Ids : rows[id] # NoRow /\ rows[id].userId = u}

\* GET /api/consultations/:id: the row as JSON.
GetConsultation(u, id) ==
    IF getConsultation(id, u) = NoRow THEN NotFound
    ELSE [status |-> 200, body |-> getConsultation(id, u)]

\* consultation.x || "": NULL and the empty string are falsy.
orEmpty(v) == IF v = NULL THEN <<>> ELSE v

\* GET /api/consultations/:id/export: the text put into the document.
ExportTypes == {"transcript", "soap"}
ExportSources == {"ai", "final"}
ExportConsultation(u, id, type, source) ==
    LET consultation == getConsultation(id, u)
    IN IF consultation = NoRow THEN NotFound
       ELSE [status |-> 200,
             body |-> IF type = "transcript"
                      THEN orEmpty(consultation.fullTranscription)
                      ELSE IF source = "ai" THEN orEmpty(consultation.aiSoapNote)
                      ELSE IF consultation.finalSoapNote \notin {NULL, <<>>}
                      THEN consultation.finalSoapNote
                      ELSE orEmpty(consultation.aiSoapNote)]

\* GET /api/consultations/:id/audio and .../download: both answer 404 unless
\* the caller's row exists and its audio file is on disk, and otherwise
\* serve that file or the .mp3 converted from it.
GetAudio(u, id) ==
    LET consultation == getConsultation(id, u)
    IN IF consultation = NoRow THEN NotFound
       ELSE IF ~existsSync(disk, consultation.audioUrl) THEN NotFound
       ELSE [status |-> 200,
             body |-> {consultation.audioUrl, mp3FilePath(consultation.audioUrl)}]

\* The answer of PUT /api/consultations/:id.
PutStatus(u, id, body) ==
    IF getConsultation(id, u) = NoRow THEN 404
    ELSE IF DOMAIN consultationUpdateSchema(body) = {} THEN 500
    ELSE 200

\* What DELETE /api/consultations/:id leaves of the table and of uploads/.
DeleteEffect(u, id) ==
    LET consultation == getConsultation(id, u)
    IN [rows |-> deleteConsultation(rows, id, u),
        disk |-> IF consultation = NoRow THEN disk
                 ELSE deleteMedia(disk, consultation.audioUrl)]

----------------------------------------------------------------------------
(* The recorder component: RecordingControls                                *)

RecordingStates == {"idle", "recording", "paused", "stopped"}

\* A MediaRecorder and its stream: not created, waiting for getUserMedia,
\* refused, recording, paused, stopped with its last dataavailable and its
\* stop event still queued ("stopping": state 'inactive', tracks live), and
\* stopped with the tracks released.
RecorderStates ==
    {"none", "pending", "denied", "recording", "paused", "stopping", "inactive"}

\* The recorder holds the microphone.
DeviceOpen(r) == recorders[r] \in {"recording", "paused", "stopping"}

\* setInterval returns a handle not in use.
newInterval(live) == CHOOSE i \in 1..(Cardinality(live) + 1) : i \notin live

\* startTimer: intervalRef.current is overwritten, whatever it held.
startTimer(ref, live) ==
    [ref |-> newInterval(live), live |-> live \cup {newInterval(live)}]

\* stopTimer: clearInterval(intervalRef.current) if it is set.
stopTimer(ref, live) ==
    IF ref # 0 THEN [ref |-> 0, live |-> live \ {ref}]
    ELSE [ref |-> ref, live |-> live]

\* Variant: consent is not looked at.
startGuardWithoutConsent(name, consent) ==
    IF name = "" THEN "patient" ELSE "ok"

\* The two guards at the top of startRecording, in their order: the toast
\* raised, or "ok".
startGuard(name, consent) ==
    IF name = "" THEN "patient"
    ELSE IF ~consent THEN "consent"
    ELSE "ok"

\* The Select of the patient list (enabled in idle only) sets
\* selectedCustomerId and customerName together.
SelectCustomer ==
    /\ recordingState = "idle"
    /\ selectedCustomerName' = "Bob"
    /\ UNCHANGED <<recordingState, consentConfirmed, duration, mediaRecorder,
                   audioChunks, intervalRef, intervals, recorders, timeouts,
                   uploads, payload, fragments>>
    /\ toast' = "none"
    /\ UNCHANGED serverVars

\* The consent checkbox (enabled in idle only).
SetConsent(value) ==
    /\ recordingState = "idle"
    /\ consentConfirmed' = value
    /\ UNCHANGED <<recordingState, selectedCustomerName, duration, mediaRecorder,
                   audioChunks, intervalRef, intervals, recorders, timeouts,
                   uploads, payload, fragments>>
    /\ toast' = "none"
    /\ UNCHANGED serverVars

\* startRecording up to `await navigator.mediaDevices.getUserMedia(...)`.
\* The button that calls it is rendered in idle only, and stays there until
\* the microphone is granted.  Its disabled attribute repeats the guards; the
\* function is modelled for every call, refused or not.
StartRecording ==
    /\ recordingState = "idle"
    /\ LET guard == startGuard(selectedCustomerName, consentConfirmed)
       IN IF guard # "ok"
          THEN /\ toast' = guard
               /\ UNCHANGED recorders
          ELSE /\ \E r \in RecorderIds :
                    /\ recorders[r] = "none"
                    /\ \A q \in RecorderIds : q < r => recorders[q] # "none"
                    /\ recorders' = [recorders EXCEPT ![r] = "pending"]
               /\ toast' = "none"
    /\ UNCHANGED <<recordingState, selectedCustomerName, consentConfirmed, duration,
                   mediaRecorder, audioChunks, intervalRef, intervals,
                   timeouts, uploads, payload, fragments>>
    /\ UNCHANGED serverVars

\* getUserMedia resolves: lines 287-319.
GrantMedia(r) ==
    /\ recorders[r] = "pending"
    /\ mediaRecorder' = r
    /\ recorders' = [recorders EXCEPT ![r] = "recording"]
    /\ recordingState' = "recording"
    /\ intervalRef' = startTimer(intervalRef, intervals).ref
    /\ intervals' = startTimer(intervalRef, intervals).live
    /\ UNCHANGED <<selectedCustomerName, consentConfirmed, duration, audioChunks,
                   timeouts, uploads, payload, fragments>>
    /\ toast' = "none"
    /\ UNCHANGED serverVars

\* getUserMedia rejects: the catch block.
DenyMedia(r) ==
    /\ recorders[r] = "pending"
    /\ recorders' = [recorders EXCEPT ![r] = "denied"]
    /\ toast' = "microphone"
    /\ UNCHANGED <<recordingState, selectedCustomerName, consentConfirmed, duration,
                   mediaRecorder, audioChunks, intervalRef, intervals,
                   timeouts, uploads, payload, fragments>>
    /\ UNCHANGED serverVars

\* recorder.ondataavailable: a fragment of size 0 is not kept.
ondataavailable(chunks, fragment, size) ==
    IF size > 0 THEN Append(chunks, fragment) ELSE chunks

\* A time slice of a recording recorder ends (recorder.start(1000)): it
\* delivers the fragment of that second.
RecorderData(r) ==
    /\ recorders[r] = "recording"
    /\ fragments < MaxFragments
    /\ fragments' = fragments + 1
    /\ audioChunks' = ondataavailable(audioChunks, fragments + 1, 1)
    /\ UNCHANGED <<recordingState, selectedCustomerName, consentConfirmed, duration,
                   mediaRecorder, intervalRef, intervals, recorders, timeouts,
                   uploads, payload>>
    /\ toast' = "none"
    /\ UNCHANGED serverVars

\* The task MediaRecorder.stop() queued: the data gathered since the last
\* slice is delivered (size 0 when there is none), then recorder.onstop
\* releases the tracks.
RecorderFlush(r, size) ==
    /\ recorders[r] = "stopping"
    /\ size > 0 => fragments < MaxFragments
    /\ fragments' = IF size > 0 THEN fragments + 1 ELSE fragments
    /\ audioChunks' = ondataavailable(audioChunks, fragments + 1, size)
    /\ recorders' = [recorders EXCEPT ![r] = "inactive"]
    /\ UNCHANGED <<recordingState, selectedCustomerName, consentConfirmed, duration,
                   mediaRecorder, intervalRef, intervals, timeouts, uploads,
                   payload>>
    /\ toast' = "none"
    /\ UNCHANGED serverVars

\* An interval fires: setDuration(prev => prev + 1).
Tick(i) ==
    /\ i \in intervals
    /\ duration < MaxDuration
    /\ duration' = duration + 1
    /\ UNCHANGED <<recordingState, selectedCustomerName, consentConfirmed,
                   mediaRecorder, audioChunks, intervalRef, intervals,
                   recorders, timeouts, uploads, payload, fragments>>
    /\ toast' = "none"
    /\ UNCHANGED serverVars

\* pauseRecording.  MediaRecorder.pause() throws InvalidStateError on an
\* inactive recorder, which ends the handler before it sets anything.
PauseRecording ==
    /\ IF mediaRecorder # 0 /\ recordingState = "recording"
          /\ recorders[mediaRecorder] \in {"recording", "paused"}
       THEN /\ recorders' = [recorders EXCEPT ![mediaRecorder] = "paused"]
            /\ recordingState' = "paused"
            /\ intervalRef' = stopTimer(intervalRef, intervals).ref
            /\ intervals' = stopTimer(intervalRef, intervals).live
       ELSE UNCHANGED <<recorders, recordingState, intervalRef, intervals>>
    /\ UNCHANGED <<selectedCustomerName, consentConfirmed, duration, mediaRecorder,
                   audioChunks, timeouts, uploads, payload, fragments>>
    /\ toast' = "none"
    /\ UNCHANGED serverVars

\* resumeRecording.  MediaRecorder.resume() throws on an inactive recorder.
ResumeRecording ==
    /\ IF mediaRecorder # 0 /\ recordingState = "paused"
          /\ recorders[mediaRecorder] \in {"recording", "paused"}
       THEN /\ recorders' = [recorders EXCEPT ![mediaRecorder] = "recording"]
            /\ recordingState' = "recording"
            /\ intervalRef' = startTimer(intervalRef, intervals).ref
            /\ intervals' = startTimer(intervalRef, intervals).live
       ELSE UNCHANGED <<recorders, recordingState, intervalRef, intervals>>
    /\ UNCHANGED <<selectedCustomerName, consentConfirmed, duration, mediaRecorder,
                   audioChunks, timeouts, uploads, payload, fragments>>
    /\ toast' = "none"
    /\ UNCHANGED serverVars

\* MediaRecorder.stop(): an active recorder becomes inactive and queues its
\* last dataavailable and its stop event; on an inactive one it returns.
stopRecorder(rs, r) ==
    IF rs[r] \in {"recording", "paused"} THEN [rs EXCEPT ![r] = "stopping"]
    ELSE rs

\* stopRecording up to setTimeout(..., 100): the callback is created in this
\* render and sees this render's audioChunks.
StopRecording ==
    /\ mediaRecorder # 0
    /\ Len(timeouts) < MaxPending
    /\ recorders' = stopRecorder(recorders, mediaRecorder)
    /\ intervalRef' = stopTimer(intervalRef, intervals).ref
    /\ intervals' = stopTimer(intervalRef, intervals).live
    /\ timeouts' = Append(timeouts,
                          [chunks |-> audioChunks, recorder |-> mediaRecorder])
    /\ UNCHANGED <<recordingState, selectedCustomerName, consentConfirmed, duration,
                   mediaRecorder, audioChunks, uploads, payload,
                   fragments>>
    /\ toast' = "none"
    /\ UNCHANGED serverVars

\* new Blob(audioChunks).size: every fragment kept has a size above 0.
blobSize(chunks) == Len(chunks)

\* Variant: the callback uploads whatever it holds.
finalizationWithoutChecks(chunks) == "upload"

\* The two checks of the callback: the toast raised, or "upload".
finalization(chunks) ==
    IF Len(chunks) = 0 THEN "nodata"
    ELSE IF blobSize(chunks) = 0 THEN "empty"
    ELSE "upload"

\* Variant: the reset leaves the consent box ticked.
resetKeepingConsent(consent) == consent

\* resetRecordingState: setConsentConfirmed(false).
resetConsent(consent) == FALSE

\* resetRecordingState: the six statements of lines 251-256.
ResetRecordingState ==
    /\ recordingState' = "idle"
    /\ duration' = 0
    /\ audioChunks' = <<>>
    /\ mediaRecorder' = 0
    /\ consentConfirmed' = resetConsent(consentConfirmed)
    /\ intervalRef' = stopTimer(intervalRef, intervals).ref
    /\ intervals' = stopTimer(intervalRef, intervals).live

\* The callback of stopRecording runs, 100 ms after the click.  The task
\* its recorder queued on stop() was queued before the timer was set and has
\* run by then.
Finalize ==
    /\ timeouts # <<>>
    /\ recorders[Head(timeouts).recorder] # "stopping"
    /\ LET closure == Head(timeouts)
           outcome == finalization(closure.chunks)
       IN /\ timeouts' = Tail(timeouts)
          /\ IF outcome = "upload"
             THEN /\ uploads' = uploads + 1
                  /\ payload' = closure.chunks
                  /\ toast' = "none"
             ELSE /\ toast' = outcome
                  /\ UNCHANGED <<uploads, payload>>
    /\ ResetRecordingState
    /\ UNCHANGED <<selectedCustomerName, recorders, fragments>>
    /\ UNCHANGED serverVars

\* The POST is answered 2xx: onSuccess.
UploadSuccess ==
    /\ uploads > 0
    /\ uploads' = uploads - 1
    /\ toast' = "uploaded"
    /\ ResetRecordingState
    /\ UNCHANGED <<selectedCustomerName, recorders, timeouts, payload, fragments>>
    /\ UNCHANGED serverVars

\* The POST fails or is answered with an error status: onError, for a 401
\* and for any other error.
UploadErrors == {"unauthorized", "upload failed"}
UploadError(kind) ==
    /\ uploads > 0
    /\ uploads' = uploads - 1
    /\ toast' = kind
    /\ UNCHANGED <<recordingState, selectedCustomerName, consentConfirmed, duration,
                   mediaRecorder, audioChunks, intervalRef, intervals,
                   recorders, timeouts, payload, fragments>>
    /\ UNCHANGED serverVars

NextRecorder ==
    \/ SelectCustomer
    \/ \E value \in BOOLEAN : SetConsent(value)
    \/ StartRecording
    \/ \E r \in RecorderIds : GrantMedia(r)
    \/ \E r \in RecorderIds : DenyMedia(r)
    \/ \E r \in RecorderIds : RecorderData(r)
    \/ \E r \in RecorderIds, size \in {0, 1} : RecorderFlush(r, size)
    \/ \E i \in 1..MaxStarts : Tick(i)
    \/ PauseRecording
    \/ ResumeRecording
    \/ StopRecording
    \/ Finalize
    \/ UploadSuccess
    \/ \E kind \in UploadErrors : UploadError(kind)

SpecRecorder == Init /\ [][NextRecorder]_vars

----------------------------------------------------------------------------
Next ==
    \/ /\ nextUpload <= MaxUploads
       /\ \E u \in Users, customerName \in RequestCustomerNames,
             customerId \in RequestCustomerIds, file \in RequestFiles,
             ext \in Extensions, dbOk \in BOOLEAN :
             PostConsultations(u, customerName, customerId, file, ext, dbOk)
    \/ \E id \in Ids, primary \in ExecOutcomes, secondary \in ExecOutcomes :
          ProcessTranscriptionStart(id, primary, secondary)
    \/ \E id \in Ids : SendResponse(id)
    \/ \E id \in Ids, text \in Transcripts : SttResolve(id, text)
    \/ \E id \in Ids : SttReject(id)
    \/ \E id \in Ids, content \in NoteContents : NoteResolve(id, content)
    \/ \E id \in Ids : NoteReject(id)
    \/ \E id \in Ids, dbOk \in BOOLEAN : PersistResult(id, dbOk)
    \/ \E id \in Ids, dbOk \in BOOLEAN : PersistFailed(id, dbOk)
    \/ \E u \in Users, id \in Ids, body \in PutBodies : PutConsultation(u, id, body)
    \/ \E u \in Users, id \in Ids : DeleteConsultation(u, id)

Spec == Init /\ [][Next]_vars

\* Runs side by side: every upload is a valid one by u1 (some audio, the
\* patient u1 owns or a bare name) and is stored; the pipeline steps of the
\* consultations interleave.  The services answer with one transcript and
\* with a complete note, or reject; the two updates succeed.
NextRuns ==
    \/ \E customerId \in {0, 1}, ext \in Extensions :
          PostConsultations("u1", "Bob", customerId, "data", ext, TRUE)
    \/ \E id \in Ids, primary \in ExecOutcomes, secondary \in ExecOutcomes :
          ProcessTranscriptionStart(id, primary, secondary)
    \/ \E id \in Ids : SendResponse(id)
    \/ \E id \in Ids : SttResolve(id, <<"hello">>)
    \/ \E id \in Ids : SttReject(id)
    \/ \E id \in Ids :
          NoteResolve(id, [kind |-> "json", obj |-> [s \in Sections |-> "text"]])
    \/ \E id \in Ids : NoteReject(id)
    \/ \E id \in Ids : PersistResult(id, TRUE)
    \/ \E id \in Ids : PersistFailed(id, TRUE)

SpecRuns == Init /\ [][NextRuns]_vars

\* One consultation, its run and the requests for its audio: the upload is
\* a valid one by u1, the services answer as in NextRuns.
NextMedia ==
    \/ /\ nextUpload <= MaxUploads
       /\ \E ext \in Extensions :
             PostConsultations("u1", "Bob", 1, "data", ext, TRUE)
    \/ \E id \in Ids, primary \in ExecOutcomes, secondary \in ExecOutcomes :
          ProcessTranscriptionStart(id, primary, secondary)
    \/ \E id \in Ids : SendResponse(id)
    \/ \E id \in Ids : SttResolve(id, <<"hello">>)
    \/ \E id \in Ids : SttReject(id)
    \/ \E id \in Ids :
          NoteResolve(id, [kind |-> "json", obj |-> [s \in Sections |-> "text"]])
    \/ \E id \in Ids : NoteReject(id)
    \/ \E id \in Ids : PersistResult(id, TRUE)
    \/ \E id \in Ids : PersistFailed(id, TRUE)
    \/ \E u \in Users, id \in Ids : AudioRequest(u, id)
    \/ \E k \in 1..MaxRequests, code \in {0, 1} : AudioClose(k, code)

SpecMedia == Init /\ [][NextMedia]_vars

\* The customer endpoints alone.
NextCustomers ==
    \/ \E u \in Users, name \in CustomerNames, petName \in PetNames :
          PostCustomer(u, name, petName)
    \/ \E u \in Users, id \in CustomerIds, body \in PutCustomerBodies :
          PutCustomer(u, id, body)
    \/ \E u \in Users, id \in CustomerIds : DeleteCustomer(u, id)

SpecCustomers == Init /\ [][NextCustomers]_vars

----------------------------------------------------------------------------
(* Properties                                                               *)

Row(id) == rows[id]
HasRow(id) == rows[id] # NoRow
RunDone(id) == run[id].pc = "done"

ExpectedSection(content, s) ==
    IF content.kind = "json" /\ content.obj[s] = "text"
    THEN SectionText(s) ELSE "Not mentioned"
ExpectedNote(content) ==
    <<"Subjective:", ExpectedSection(content, "subjective"),
      "Objective:",  ExpectedSection(content, "objective"),
      "Assessment:", ExpectedSection(content, "assessment"),
      "Plan:",       ExpectedSection(content, "plan")>>
AllPlaceholders ==
    <<"Subjective:", "Not mentioned", "Objective:", "Not mentioned",
      "Assessment:", "Not mentioned", "Plan:", "Not mentioned">>

\* C3 (the claim as stated): a run whose note-generation answer could not be
\* parsed ends with status 'completed', the transcript stored and aiSoapNote
\* made of the four placeholders.
UnparseableBodyCompletes ==
    \A id \in Ids :
        (HasRow(id) /\ RunDone(id) /\ run[id].threw = "parse"
            /\ ~run[id].fault)
        => /\ Row(id).status = "completed"
           /\ Row(id).fullTranscription # NULL
           /\ Row(id).aiSoapNote = AllPlaceholders

\* C3 witness: a run whose answer was not parseable has ended.
UnparseableBodySeen ==
    \E id \in Ids : HasRow(id) /\ RunDone(id) /\ run[id].threw = "parse"

\* A run that completed without error: it has ended and no step threw.
RunSucceeded(id) == RunDone(id) /\ run[id].threw = "none"

\* C4 (the claim as stated): after a run without error the row is
\* 'completed', fullTranscription is non-empty, and aiSoapNote is the four
\* headers in order with the section text or "Not mentioned".
CompletedHasNonEmptyTranscript ==
    \A id \in Ids :
        (HasRow(id) /\ RunSucceeded(id))
        => /\ Row(id).status = "completed"
           /\ Row(id).fullTranscription \notin {NULL, <<>>}
           /\ Row(id).aiSoapNote = ExpectedNote(run[id].content)

\* C4 (amended): after a run without error the row is 'completed',
\* fullTranscription is the text the speech-to-text service returned (not
\* NULL, possibly the empty string), and aiSoapNote is the four headers in
\* order with the section text or "Not mentioned".
CompletedHasTranscriptAndNote ==
    \A id \in Ids :
        (HasRow(id) /\ RunSucceeded(id))
        => /\ Row(id).status = "completed"
           /\ Row(id).fullTranscription = run[id].text
           /\ Row(id).fullTranscription # NULL
           /\ Row(id).aiSoapNote = ExpectedNote(run[id].content)

\* C4 witness: a completed run whose answer had an absent and an empty
\* section, on an empty transcript.
CompletedWithPlaceholders ==
    \E id \in Ids :
        /\ HasRow(id) /\ RunSucceeded(id)
        /\ Row(id).fullTranscription = <<>>
        /\ run[id].content.kind = "json"
        /\ Row(id).aiSoapNote[2] = SectionText("subjective")
        /\ Row(id).aiSoapNote[4] = "Not mentioned"
        /\ Row(id).aiSoapNote[6] = "Not mentioned"

\* C5 (the claim as stated, for runs that have ended): the row of an ended
\* run has a terminal status.
EndedRunIsTerminal ==
    \A id \in Ids :
        (HasRow(id) /\ RunDone(id)) => Row(id).status \in Terminal

\* C6: fullTranscription and aiSoapNote are both present when status is
\* 'completed' and both NULL otherwise.
ContentIffCompleted ==
    \A id \in Ids :
        HasRow(id) =>
            IF Row(id).status = "completed"
            THEN Row(id).fullTranscription # NULL /\ Row(id).aiSoapNote # NULL
            ELSE Row(id).fullTranscription = NULL /\ Row(id).aiSoapNote = NULL

\* C6 witness: a completed row with both, edited by its user.
CompletedAndEdited ==
    \E id \in Ids :
        /\ HasRow(id) /\ Row(id).status = "completed"
        /\ Row(id).fullTranscription # NULL /\ Row(id).aiSoapNote # NULL
        /\ Row(id).finalSoapNote = <<"edited">>

FilesOf(n) == {p \in Paths : p[1] = n /\ disk[p] # "absent"}

\* C7 (the claim as stated): after a 400 answer to an upload nothing of the
\* request is left: no file under uploads/, no row, no run.
RejectedUploadLeavesNothing ==
    \A n \in Ids :
        response[n] = 400 =>
            /\ FilesOf(n) = {}
            /\ \A id \in Ids : run[id].upload # n

\* C7 witness: an upload was answered 400.
UploadRejected == \E n \in Ids : response[n] = 400

\* C8 (the claim as stated): no consultation row refers to a zero-length
\* audio file.
NoRowForEmptyAudio ==
    \A id \in Ids : HasRow(id) => disk[Row(id).audioUrl] # "empty"

\* C9 (the claim as stated): as long as the response to the upload has not
\* been sent, no step of the consultation's run has executed.
NoStepBeforeResponse ==
    \A id \in Ids : run[id].starts > 0 => response[run[id].upload] = 200

\* C9 witness: the response to an accepted upload has been sent.
UploadAnswered ==
    \E id \in Ids : run[id].starts > 0 /\ response[run[id].upload] = 200

\* The step is a user's PUT or DELETE of consultation id.
UserEdit(id) ==
    \/ \E u \in Users, body \in PutBodies : PutConsultation(u, id, body)
    \/ \E u \in Users : DeleteConsultation(u, id)

\* C10: processTranscription is called at most once per id and only for an
\* id whose row was created; an ended run does nothing more; and a row whose
\* status is terminal changes only by a user's PUT or DELETE, so reads
\* without such an edit in between return the same values.
ExactlyOneRun ==
    /\ [](\A id \in Ids :
            /\ run[id].starts <= 1
            /\ run[id].starts = 1 => id < nextId
            /\ run[id].pc \notin {"none", "created"} => run[id].starts = 1)
    /\ [][\A id \in Ids :
            /\ RunDone(id) => run'[id] = run[id]
            /\ (HasRow(id) /\ Row(id).status \in Terminal
                  /\ rows'[id] # rows[id]) => UserEdit(id)]_vars

\* C10 witness: a run has ended on a terminal row after one call.
RunEndedOnce ==
    \E id \in Ids :
        /\ HasRow(id) /\ RunDone(id) /\ run[id].starts = 1
        /\ Row(id).status \in Terminal

\* The steps of a run that call storage.updateConsultation.
PipelineWrite(id) == \E dbOk \in BOOLEAN : PersistResult(id, dbOk) \/ PersistFailed(id, dbOk)

\* C11: a PUT /api/consultations/:id changes no column of the row other
\* than finalSoapNote and isFinalized, whatever the body carries (status,
\* userId, customerId, fullTranscription, aiSoapNote, audioUrl, fileName keep
\* their values); a pipeline write never changes isFinalized, userId or
\* customerId; and no step at all changes userId, customerId, audioUrl or
\* fileName of an existing row.
PutChangesOnlyNoteAndFinalized ==
    [][\A id \in Ids :
          /\ (\E u \in Users, body \in PutBodies : PutConsultation(u, id, body))
                => /\ rows'[id] # NoRow
                   /\ \A c \in DOMAIN Row(id) \ {"finalSoapNote", "isFinalized"} :
                          rows'[id][c] = Row(id)[c]
          /\ (PipelineWrite(id) /\ HasRow(id))
                => \A c \in {"isFinalized", "userId", "customerId"} :
                       rows'[id][c] = Row(id)[c]
          /\ (HasRow(id) /\ rows'[id] # NoRow)
                => \A c \in {"userId", "customerId", "audioUrl", "fileName"} :
                       rows'[id][c] = Row(id)[c]]_vars

\* C11 witness: a PUT whose body also carried status, userId, customerId,
\* audioUrl and fileName has been applied to a row still being processed:
\* the note and the flag are the user's, everything else is as created.
EditedWhileProcessing ==
    \E id \in Ids :
        /\ HasRow(id)
        /\ Row(id).finalSoapNote = <<"edited">> /\ Row(id).isFinalized
        /\ Row(id).status = "processing" /\ Row(id).userId = "u1"
        /\ Row(id).customerId = 1 /\ Row(id).fileName = fileNameOf(1)
        /\ Row(id).audioUrl = run[id].path
        /\ Row(id).fullTranscription = NULL /\ Row(id).aiSoapNote = NULL

\* C12 (the claim as stated): as long as finalSoapNote does not hold a
\* user's value it equals aiSoapNote, and once a PUT has set it, it keeps the
\* user's value: no later step of the pipeline replaces it.
UserNoteSurvivesPipeline ==
    /\ [](\A id \in Ids :
            (HasRow(id) /\ Row(id).finalSoapNote # <<"edited">>)
                => Row(id).finalSoapNote = Row(id).aiSoapNote)
    /\ [][\A id \in Ids :
            (HasRow(id) /\ Row(id).finalSoapNote = <<"edited">>
                /\ rows'[id] # NoRow)
            => rows'[id].finalSoapNote = <<"edited">>]_vars

\* C12 witness: the user's note was stored while the row was processing, and
\* the run has since completed and written its own note over it.
UserNoteOverwritten ==
    \E id \in Ids :
        /\ HasRow(id) /\ RunSucceeded(id)
        /\ Row(id).isFinalized
        /\ Row(id).finalSoapNote = Row(id).aiSoapNote

\* C17: a request by user u for a consultation owned by another user is
\* answered 404 by the read, export, audio, download and update endpoints,
\* does not appear in u's list, and its DELETE leaves table and files as
\* they are; and every step that updates or deletes a row through PUT or
\* DELETE is a request of the row's owner.
OwnerOnlyAccess ==
    /\ [](\A id \in Ids, u \in Users :
            (HasRow(id) /\ Row(id).userId # u) =>
                /\ GetConsultation(u, id) = NotFound
                /\ \A type \in ExportTypes, source \in ExportSources :
                       ExportConsultation(u, id, type, source) = NotFound
                /\ GetAudio(u, id) = NotFound
                /\ \A body \in PutBodies : PutStatus(u, id, body) = 404
                /\ DeleteEffect(u, id) = [rows |-> rows, disk |-> disk]
                /\ id \notin getUserConsultations(u))
    /\ [][\A id \in Ids, u \in Users :
            ((\E body \in PutBodies : PutConsultation(u, id, body))
                \/ DeleteConsultation(u, id))
            => Row(id).userId = u]_vars

\* C17 witness: a row of u2 with its audio on disk: u2 is served the row
\* and the audio and has edited the note, u1 is answered 404.
OwnerServedOtherRefused ==
    \E id \in Ids :
        /\ HasRow(id) /\ Row(id).userId = "u2"
        /\ Row(id).finalSoapNote = <<"edited">>
        /\ GetConsultation("u2", id).status = 200
        /\ GetAudio("u2", id).status = 200
        /\ GetConsultation("u1", id) = NotFound
        /\ GetAudio("u1", id) = NotFound

\* The conversion produced a non-empty output file.
Produced(o) == o = "ok_data"

\* C21 (the claim as stated): transcribeAudio runs the MP3 conversion
\* first; it runs the WAV conversion whenever the MP3 conversion threw or
\* left an empty or missing output; it uses the original file only when
\* both conversions were run and neither produced a non-empty file; and the
\* file it uses is the output of the first conversion that produced one.
ConversionOrder ==
    [][\A id \in Ids, primary \in ExecOutcomes, secondary \in ExecOutcomes :
          ProcessTranscriptionStart(id, primary, secondary) =>
             LET src == run[id].path
                 r == normalizeAudio(disk, src, primary, secondary)
                 ranWav == \E k \in DOMAIN r.attempted : r.attempted[k] = "wav"
             IN /\ r.attempted[1] = "mp3"
                /\ ranWav <=> ~Produced(primary)
                /\ r.fileToUse = src
                      => (ranWav /\ ~Produced(primary) /\ ~Produced(secondary))
                /\ Produced(primary) => r.fileToUse = mp3FilePath(src)
                /\ (~Produced(primary) /\ ranWav /\ Produced(secondary))
                      => r.fileToUse = wavFilePath(src)]_vars

\* C21 witness: the MP3 conversion returned leaving an empty file; the WAV
\* conversion was not run and the original file went to speech-to-text.
EmptyMp3ThenOriginal ==
    \E id \in Ids :
        /\ run[id].pc = "stt" /\ ~run[id].conv
        /\ disk[mp3FilePath(run[id].path)] = "empty"
        /\ disk[wavFilePath(run[id].path)] = "absent"

\* C22 (the claim as stated): once a run has ended with status 'completed',
\* neither the .mp3 nor the .wav derived from its source path is on disk,
\* and the original file named by audioUrl is.
CompletedRunLeavesNoTempFile ==
    \A id \in Ids :
        (HasRow(id) /\ RunDone(id) /\ Row(id).status = "completed")
        => /\ disk[mp3FilePath(Row(id).audioUrl)] = "absent"
           /\ disk[wavFilePath(Row(id).audioUrl)] = "absent"
           /\ existsSync(disk, Row(id).audioUrl)

\* C22 witness: a completed run whose MP3 conversion had left an empty
\* file; the file is still on disk next to the original.
EmptyMp3LeftBehind ==
    \E id \in Ids :
        /\ HasRow(id) /\ RunSucceeded(id) /\ Row(id).status = "completed"
        /\ disk[mp3FilePath(Row(id).audioUrl)] = "empty"
        /\ existsSync(disk, Row(id).audioUrl)

\* The ffmpeg call with outcome o was made by this run of transcribeAudio.
PrimaryTimedOut(primary) == primary = "timeout"
SecondaryTimedOut(primary, secondary) ==
    ExecThrew(primary) /\ secondary = "timeout"

\* C23 (the claim as stated): a step that exceeds its timeout fails the
\* run: when a conversion call times out, or an external-service call
\* rejects (a timeout included), the run enters processTranscription's
\* catch block, whose update writes status 'failed'.
TimeoutFailsRun ==
    [][\A id \in Ids :
          /\ \A primary \in ExecOutcomes, secondary \in ExecOutcomes :
                (/\ ProcessTranscriptionStart(id, primary, secondary)
                 /\ \/ PrimaryTimedOut(primary)
                    \/ SecondaryTimedOut(primary, secondary))
                => run'[id].pc = "failing"
          /\ (SttReject(id) \/ NoteReject(id)) => run'[id].pc = "failing"
          /\ (run[id].pc = "failing" /\ run'[id].pc = "done"
                /\ ~run'[id].fault /\ rows'[id] # NoRow)
                => rows'[id].status = "failed"]_vars

\* The consultation was created (its run exists) and its row has since been
\* deleted.
Deleted(id) == run[id].pc # "none" /\ ~HasRow(id)

\* The original audio of a run and the two files derived from its path that
\* are on disk.
MediaOf(id) ==
    {p \in {run[id].path, mp3FilePath(run[id].path), wavFilePath(run[id].path)} :
        existsSync(disk, p)}

\* C26 (the claim as stated): once a consultation has been deleted and its
\* run has ended, neither the original audio nor a converted file derived
\* from it is on disk; and no step brings a deleted row back.
DeleteRemovesRowAndMedia ==
    /\ [](\A id \in Ids : (Deleted(id) /\ RunDone(id)) => MediaOf(id) = {})
    /\ [][\A id \in Ids : Deleted(id) => rows'[id] = NoRow]_vars

\* C26 witness: a consultation deleted while its run was at the
\* speech-to-text call; the run has ended, the row is gone and a converted
\* file is still on disk.
DeletedWithFileLeft ==
    \E id \in Ids :
        /\ Deleted(id) /\ RunDone(id)
        /\ ~existsSync(disk, run[id].path)
        /\ MediaOf(id) # {}

----------------------------------------------------------------------------
(* Properties of the recorder component                                     *)

\* C13: a call of startRecording in idle with no patient chosen or without
\* consent raises an error toast and changes nothing else: the state stays
\* idle, no microphone request is made (no recorder, no open device), no
\* interval is set, and buffer, duration and recorder reference keep their
\* values.
RefusedStartChangesNothing ==
    [][(StartRecording /\ (selectedCustomerName = "" \/ ~consentConfirmed))
          => /\ toast' \in {"patient", "consent"}
             /\ recordingState' = "idle"
             /\ UNCHANGED <<recordingState, recorders, intervalRef, intervals,
                            audioChunks, mediaRecorder, duration>>]_vars

\* C13 witness: a start was refused for missing consent with a patient
\* chosen: idle, no recorder ever requested, no interval, empty buffer.
StartRefused ==
    /\ toast = "consent" /\ selectedCustomerName = "Bob"
    /\ recordingState = "idle"
    /\ \A r \in RecorderIds : recorders[r] = "none"
    /\ intervals = {} /\ audioChunks = <<>>

\* C14 (the claim as stated): a call of startRecording in idle without
\* consent leaves the state idle and raises the consent error, whether a
\* patient is chosen or not.
NoConsentRaisesConsentError ==
    [][(StartRecording /\ ~consentConfirmed)
          => (toast' = "consent" /\ recordingState' = "idle")]_vars

\* C14 witness: without consent and without a patient, the error raised is
\* the patient error.
PatientErrorWithoutConsent ==
    toast = "patient" /\ ~consentConfirmed /\ recordingState = "idle"

\* C15: when the callback of a stopRecording that saw no fragment (or
\* fragments of total size 0) runs, it raises an error toast, the state
\* becomes idle, duration 0 and the buffer empty, and no upload is started;
\* this for every duration and for recording and paused alike.
EmptyStopReturnsToIdle ==
    [][(Finalize /\ blobSize(Head(timeouts).chunks) = 0)
          => /\ toast' \in {"nodata", "empty"}
             /\ recordingState' = "idle"
             /\ duration' = 0
             /\ audioChunks' = <<>>
             /\ uploads' = uploads /\ payload' = payload]_vars

\* C15 witness: a stop without fragments has been reported; the machine is
\* idle at duration 0 with an empty buffer and nothing was ever uploaded.
EmptyStopReported ==
    /\ toast = "nodata"
    /\ recordingState = "idle" /\ duration = 0 /\ audioChunks = <<>>
    /\ uploads = 0 /\ payload = <<>>

UploadIsWholeBuffer ==
    [][(Finalize /\ uploads' = uploads + 1) => payload' = audioChunks]_vars

\* C18 witness: one recorder only was ever created; it delivered fragments
\* 1 and 2 and is stopped; the upload carries fragment 1 alone.
TrailingFragmentLost ==
    /\ recorders[1] = "inactive"
    /\ \A r \in RecorderIds \ {1} : recorders[r] = "none"
    /\ fragments = 2 /\ payload = <<1>>

ListedTransitions ==
    { <<"idle", "recording">>, <<"recording", "paused">>,
      <<"paused", "recording">>, <<"recording", "stopped">>,
      <<"paused", "stopped">>, <<"stopped", "idle">> }

\* C19 (the claim as stated): recordingState changes along the six listed
\* transitions only, so that a stop goes through 'stopped'; and pause,
\* resume and stop change nothing of the recording state in a state they
\* are not listed for.
OnlyListedTransitions ==
    [][/\ (recordingState' # recordingState)
            => <<recordingState, recordingState'>> \in ListedTransitions
       /\ \/ PauseRecording /\ recordingState # "recording"
          \/ ResumeRecording /\ recordingState # "paused"
          \/ StopRecording /\ recordingState \notin {"recording", "paused"}
          => UNCHANGED <<recordingState, duration, audioChunks, mediaRecorder,
                         intervalRef, intervals, recorders, timeouts>>]_vars

\* C19 witness: a recording was stopped and uploaded and the machine is
\* back in idle.
BackInIdleAfterStop ==
    recordingState = "idle" /\ uploads = 1 /\ payload # <<>>

\* C20 (the claim as stated): one interval at most is live, so that a
\* second adds 1 to duration, and an interval fires in state recording
\* only, whatever starts, pauses, resumes and stops came before.
DurationCountsRecordingSeconds ==
    /\ [](Cardinality(intervals) <= 1)
    /\ [][\A i \in 1..MaxStarts : Tick(i) => recordingState = "recording"]_vars

\* C20 witness: two starts were granted the microphone; two intervals are
\* live while recording.
TwoTimersRunning ==
    Cardinality(intervals) = 2 /\ recordingState = "recording"

\* A step of the run of consultation id: the synchronous start of
\* transcribeAudio, a service call settling, one of the two updates.
RunStep(id) ==
    \/ \E primary \in ExecOutcomes, secondary \in ExecOutcomes :
          ProcessTranscriptionStart(id, primary, secondary)
    \/ \E text \in Transcripts : SttResolve(id, text)
    \/ SttReject(id)
    \/ \E content \in NoteContents : NoteResolve(id, content)
    \/ NoteReject(id)
    \/ PipelineWrite(id)

\* The files a run works on: its source file and the two files whose names
\* are derived from the source's.
WorkFiles(id) ==
    {run[id].path, mp3FilePath(run[id].path), wavFilePath(run[id].path)}

\* C24: a step of the run of consultation a leaves the row and the run of
\* every other consultation as they are; the only files it changes are the
\* .mp3 and .wav derived from a's source file, which carry the name multer
\* gave to a's upload and are not among the files of any other run.
RunsIndependent ==
    [][\A a \in Ids :
          RunStep(a) =>
             /\ \A b \in Ids \ {a} : rows'[b] = rows[b] /\ run'[b] = run[b]
             /\ \A p \in Paths :
                   disk'[p] # disk[p] =>
                      /\ p \in WorkFiles(a) \ {run[a].path}
                      /\ p[1] = run[a].upload
                      /\ \A b \in Ids \ {a} :
                            run[b].pc # "none" => p \notin WorkFiles(b)]_vars

\* C24 witness: two runs are at the speech-to-text call at once, each with
\* its own converted file on disk.
TwoRunsConverted ==
    \E a \in Ids, b \in Ids :
        /\ a # b /\ run[a].pc = "stt" /\ run[b].pc = "stt"
        /\ run[a].conv /\ run[b].conv
        /\ disk[mp3FilePath(run[a].path)] = "data"
        /\ disk[wavFilePath(run[b].path)] = "data"

\* C25 (the claim as stated): two consultations created by distinct uploads
\* have distinct fileName values.
FileNamesDistinct ==
    \A a \in Ids, b \in Ids :
        (a # b /\ HasRow(a) /\ HasRow(b)) => Row(a).fileName # Row(b).fileName

\* C25 witness: two consultations of the same patient, uploaded within the
\* same minute, with one fileName.
SamePatientSameFileName ==
    \E a \in Ids, b \in Ids :
        /\ a # b /\ HasRow(a) /\ HasRow(b)
        /\ Row(a).customerId = 1 /\ Row(b).customerId = 1
        /\ Row(a).audioUrl # Row(b).audioUrl
        /\ Row(a).fileName = Row(b).fileName

\* C30 (the claim as stated): what an audio or download request streams is
\* a completely converted MP3 or the original file, whatever other request
\* or pipeline run works on the same .mp3 path.
ServesCompleteMp3OrOriginal ==
    \A k \in DOMAIN audioRequests :
        audioRequests[k].out \in {"notfound", "converting", "mp3", "original"}

\* C30 witness: a request was answered with the bytes of an MP3 that the
\* ffmpeg of an earlier request is still writing.
ServedWhileConverting ==
    \E j \in DOMAIN audioRequests, k \in DOMAIN audioRequests :
        /\ j < k
        /\ audioRequests[j].out = "converting"
        /\ audioRequests[k].id = audioRequests[j].id
        /\ audioRequests[k].out = "partial"

\* C29 (the claim as stated): PUT /api/customers/:id by user u changes a
\* customer row only if u owns it, and never changes the row's userId,
\* whatever the body holds.
PutCustomerOwnerOnly ==
    [][\A u \in Users, id \in CustomerIds, body \in PutCustomerBodies :
          (PutCustomer(u, id, body) /\ customers[id] # NoCustomer)
          => /\ customers'[id] # customers[id] => customers[id].userId = u
             /\ customers'[id].userId = customers[id].userId]_vars

\* C29 witness: customer 1, created for u1, now belongs to u2.
CustomerChangedOwner ==
    customers[1] # NoCustomer /\ customers[1].userId = "u2"

\* An upload callback runs: onSuccess or onError of uploadMutation.
UploadCallback == UploadSuccess \/ \E kind \in UploadErrors : UploadError(kind)

\* A recording is under way.  Every upload is submitted by the stop callback,
\* which resets the component to idle, so a recording under way while an
\* upload is pending was started after that upload was submitted.
RecordingUnderWay == recordingState \in {"recording", "paused"}

\* C27 (the claim as stated): when the callback of an upload runs while a
\* recording started after the upload was submitted is under way, it leaves
\* the recording state, the buffer, the duration, the recorder handle, the
\* consent and the timer as they are.
UploadCallbackKeepsRecording ==
    [][(UploadCallback /\ RecordingUnderWay)
          => UNCHANGED <<recordingState, duration, audioChunks, mediaRecorder,
                         consentConfirmed, intervalRef, intervals,
                         recorders>>]_vars

\* C27 witness: the success callback has just run; the component is idle
\* with an empty buffer while the recorder of the recording started after
\* the upload still records.
UploadResetNewRecording ==
    /\ toast = "uploaded" /\ recordingState = "idle" /\ mediaRecorder = 0
    /\ \E r \in RecorderIds : recorders[r] = "recording"

\* The recorders that hold the microphone: each has its own capture stream.
OpenDevices == {r \in RecorderIds : DeviceOpen(r)}

\* C28 (the claim as stated): at most one stream, one recorder and one
\* interval are live, and none is live while the component is idle.
OneDeviceNoneWhenIdle ==
    /\ Cardinality(OpenDevices) <= 1
    /\ Cardinality(intervals) <= 1
    /\ recordingState = "idle" => (OpenDevices = {} /\ intervals = {})

\* C28 witness: two recorders hold the microphone at once.
TwoDevicesOpen == Cardinality(OpenDevices) = 2

====
